---- MODULE Spec2Model ----
(***************************************************************************)
(* Zakat collection forecasting (src/backend/time_series_model.py):        *)
(* synthetic monthly series, the Prophet / linear-regression model object, *)
(* and get_forecast_data with its two cache files.                         *)
(*                                                                         *)
(* Units.  Money is held in integer cents (what round(x, 2) leaves);       *)
(* a value that has not been rounded yet is held exactly, as a whole       *)
(* number of cents plus a fraction r/d of a cent.  Dates are <<y, m, d>>.  *)
(***************************************************************************)
EXTENDS Integers, Sequences, FiniteSets, TLC

\* ------------------------------------------------------------ bounds
MaxYearSpan == 2        \* generate is called on years 2024 .. 2024+MaxYearSpan
MaxPeriods == 2         \* periods arguments are 0 .. MaxPeriods
MaxLen == 3             \* hand-made training series have 0 .. MaxLen points
MaxDraws == 1           \* draws other code takes from the shared generator
MaxCalls == 2           \* get_forecast_data calls in one behaviour
MaxWorkers == 2         \* worker processes inside get_forecast_data together
MaxClients == 2         \* browsers using the web application together
MaxRegisters == 3       \* register requests in one behaviour
MaxEntropy == 1         \* a new process finds the generator in a state 0 .. MaxEntropy

\* ------------------------------------------------------------ configuration
\* RAMADAN_MONTHS.get(year, 4)
RAMADAN_MONTHS(year) ==
    CASE year = 2020 -> 4
      [] year = 2021 -> 4
      [] year = 2022 -> 4
      [] year = 2023 -> 3
      [] year = 2024 -> 3
      [] year = 2025 -> 2
      [] OTHER -> 4

RAMADAN_BOOST == 25         \* 2.5, in tenths
YEAR_END_BOOST == 13        \* 1.3, in tenths
NORMAL_VARIATION == 15000   \* 0.15, in 1/100000
base_monthly == 150000      \* RM
GROWTH_PCT == 12            \* 0.12, in hundredths

\* ------------------------------------------------------------ arithmetic
Abs(x) == IF x < 0 THEN -x ELSE x

\* round(num/den) to the nearest integer, ties to the even one (Python's round)
RoundHalfEven(num, den) ==
    LET q == num \div den
        r == num % den
    IN  IF 2 * r < den THEN q
        ELSE IF 2 * r > den THEN q + 1
        ELSE IF q % 2 = 0 THEN q ELSE q + 1

\* ------------------------------------------------------------ dates
IsLeap(y) == (y % 4 = 0 /\ y % 100 # 0) \/ y % 400 = 0

DaysInMonth(y, m) ==
    IF m = 2 THEN (IF IsLeap(y) THEN 29 ELSE 28)
    ELSE IF m \in {4, 6, 9, 11} THEN 30 ELSE 31

\* datetime + timedelta(days = k), k >= 0
RECURSIVE AddDays(_, _)
AddDays(date, k) ==
    LET y == date[1]
        m == date[2]
        d == date[3]
        left == DaysInMonth(y, m) - d
    IN  IF k <= left THEN <<y, m, d + k>>
        ELSE AddDays(IF m = 12 THEN <<y + 1, 1, 1>> ELSE <<y, m + 1, 1>>,
                     k - left - 1)

\* the k-th month start after the month of date (pandas freq = 'MS')
MonthStartAfter(date, k) ==
    LET idx == date[1] * 12 + (date[2] - 1) + k
    IN  <<idx \div 12, (idx % 12) + 1, 1>>

\* strftime('%Y-%m-%d'): the text, as its three fields
strftime(date) == [Y |-> date[1], m |-> date[2], d |-> date[3]]

\* ------------------------------------------------------------ numpy's global generator
\* The generator is a deterministic function of its state: seed() sets the
\* state, every draw advances it.  (A 16-bit congruential generator stands
\* for the Mersenne twister.)
Seed(s) == s % (2 ^ 16)

NextRng(g) == (g * 25173 + 13849) % (2 ^ 16)

\* (mutant of Uniform: the draw ranges over twice the variation)
UniformTwice(g) == (g % (4 * NORMAL_VARIATION + 1)) - 2 * NORMAL_VARIATION

\* np.random.uniform(-NORMAL_VARIATION, NORMAL_VARIATION), in 1/100000,
\* read from the state the draw leaves
Uniform(g) == (g % (2 * NORMAL_VARIATION + 1)) - NORMAL_VARIATION

\* ------------------------------------------------------------ generate_historical_data
\* (mutant of SeasonalBoost: the month after Ramadan gets no Ramadan boost)
SeasonalBoostRamadanOnly(year, month) ==
    LET ramadan_month == RAMADAN_MONTHS(year)
    IN  IF month = ramadan_month THEN RAMADAN_BOOST
        ELSE IF month \in {11, 12} THEN YEAR_END_BOOST
        ELSE 10

\* the seasonal multiplier of one month, in tenths
SeasonalBoost(year, month) ==
    LET ramadan_month == RAMADAN_MONTHS(year)
    IN  IF month = ramadan_month \/ month = ramadan_month + 1 THEN RAMADAN_BOOST
        ELSE IF month \in {11, 12} THEN YEAR_END_BOOST
        ELSE 10

\* base_monthly * growth_factor * boost * variation, in tenths of a cent:
\*   RM base * (100 + 12k)/100 * b/10 * (100000 + u)/100000, times 1000
\*   = (base * (100 + 12k) / 100000) * b * (100000 + u)
\* (base * (100 + 12k) is a multiple of 100000 for base = 150000)
Amount(start_year, year, month, u) ==
    ((base_monthly * (100 + GROWTH_PCT * (year - start_year))) \div 100000)
        * SeasonalBoost(year, month) * (100000 + u)

\* (mutant of GenerateMonths: range(1, 12), December never generated)
RECURSIVE GenerateMonthsTo11(_, _, _, _)
GenerateMonthsTo11(start_year, year, month, g) ==
    IF month > 11
    THEN [data |-> <<>>, rng |-> g]
    ELSE LET g1 == NextRng(g)
             amount == Amount(start_year, year, month, Uniform(g1))
             row == [ds |-> <<year, month, 1>>, y |-> RoundHalfEven(amount, 10)]
             rest == GenerateMonthsTo11(start_year, year, month + 1, g1)
         IN  [data |-> <<row>> \o rest.data, rng |-> rest.rng]

\* for month in range(month, 13): one draw and one row per month
RECURSIVE GenerateMonths(_, _, _, _)
GenerateMonths(start_year, year, month, g) ==
    IF month > 12
    THEN [data |-> <<>>, rng |-> g]
    ELSE LET g1 == NextRng(g)
             amount == Amount(start_year, year, month, Uniform(g1))
             row == [ds |-> <<year, month, 1>>, y |-> RoundHalfEven(amount, 10)]
             rest == GenerateMonths(start_year, year, month + 1, g1)
         IN  [data |-> <<row>> \o rest.data, rng |-> rest.rng]

\* (mutant of GenerateYears: the loop body runs before the range is tested,
\* so start_year is generated even when it is past end_year)
RECURSIVE GenerateYearsDoWhile(_, _, _, _)
GenerateYearsDoWhile(start_year, year, end_year, g) ==
    IF year > end_year /\ year # start_year
    THEN [data |-> <<>>, rng |-> g]
    ELSE LET this == GenerateMonths(start_year, year, 1, g)
             rest == GenerateYearsDoWhile(start_year, year + 1, end_year, this.rng)
         IN  [data |-> this.data \o rest.data, rng |-> rest.rng]

\* for year in range(year, end_year + 1)
RECURSIVE GenerateYears(_, _, _, _)
GenerateYears(start_year, year, end_year, g) ==
    IF year > end_year
    THEN [data |-> <<>>, rng |-> g]
    ELSE LET this == GenerateMonths(start_year, year, 1, g)
             rest == GenerateYears(start_year, year + 1, end_year, this.rng)
         IN  [data |-> this.data \o rest.data, rng |-> rest.rng]

\* (mutant of SeedAtEntry: the np.random.seed(42) line is missing)
SeedAtEntryOmitted(g) == g

\* the state np.random.seed(42) leaves, whatever the state before
SeedAtEntry(g) == Seed(42)

\* generate_historical_data(start_year, end_year) run with the generator in
\* state g: the DataFrame and the state the generator is left in
generate_historical_data(start_year, end_year, g) ==
    GenerateYears(start_year, start_year, end_year, SeedAtEntry(g))

\* ------------------------------------------------------------ exact fractions
\* [q, r, d] is the number q + r/d, with 0 <= r < d: what a float holds before
\* it is rounded.  q may be negative (r/d is then added to it).
FracOfInt(k) == [q |-> k, r |-> 0, d |-> 1]

\* k / d
FracOfDiv(k, d) == [q |-> k \div d, r |-> k % d, d |-> d]

\* the same number over the denominator d * f
FracRescale(a, f) == [q |-> a.q, r |-> a.r * f, d |-> a.d * f]

\* a + b and a - b, both over the same denominator
FracAdd(a, b) ==
    [q |-> a.q + b.q + ((a.r + b.r) \div a.d), r |-> (a.r + b.r) % a.d, d |-> a.d]

FracSub(a, b) ==
    [q |-> a.q - b.q + ((a.r - b.r) \div a.d), r |-> (a.r - b.r) % a.d, d |-> a.d]

\* a * m and a / k, for integers m and k > 0
FracMulInt(a, m) ==
    [q |-> a.q * m + ((a.r * m) \div a.d), r |-> (a.r * m) % a.d, d |-> a.d]

FracDivInt(a, k) ==
    [q |-> a.q \div k, r |-> (a.q % k) * a.d + a.r, d |-> a.d * k]

\* a * m for an integer m >= 0, by doubling (no product is ever formed, so
\* nothing exceeds twice the operands)
RECURSIVE FracTimes(_, _)
FracTimes(a, m) ==
    IF m = 0 THEN [q |-> 0, r |-> 0, d |-> a.d]
    ELSE LET h == FracTimes(a, m \div 2)
             dbl == FracAdd(h, h)
         IN  IF m % 2 = 0 THEN dbl ELSE FracAdd(dbl, a)

\* a * pct / 100, without forming pct * a.q
FracScalePct(a, pct) ==
    LET w == a.q \div 100
        t == a.q % 100
        u == (pct * a.r) \div a.d
        v == (pct * a.r) % a.d
        s == pct * t + u
    IN  [q |-> pct * w + (s \div 100), r |-> (s % 100) * a.d + v, d |-> 100 * a.d]

\* a <= b, where one denominator divides the other
FracLeq(a, b) ==
    IF a.q # b.q THEN a.q < b.q
    ELSE IF b.d % a.d = 0 THEN a.r * (b.d \div a.d) <= b.r
    ELSE a.r <= b.r * (a.d \div b.d)

FracEq(a, b) == FracLeq(a, b) /\ FracLeq(b, a)

\* (mutant of RoundFrac: the value is cut, not rounded)
RoundFracDown(a) == a.q

\* round(x): to the nearest whole number, ties to the even one
RoundFrac(a) ==
    IF 2 * a.r < a.d THEN a.q
    ELSE IF 2 * a.r > a.d THEN a.q + 1
    ELSE IF a.q % 2 = 0 THEN a.q ELSE a.q + 1

\* ------------------------------------------------------------ sklearn LinearRegression
\* Least squares of y on the month numbers 0 .. n-1.  With c[i] = 2i - (n-1)
\* (twice the centred month number) and S = sum of c[i]^2 = n(n^2-1)/3:
\*   coef_ = 2 * sum(c[i] * y[i]) / S,  intercept_ = mean(y) - coef_ * (n-1)/2.
\* One point has no slope: coef_ = 0.
SumSqC(n) == (n * (n * n - 1)) \div 3

\* LinearRegression(): no coefficients until fit succeeds
LinearRegressionNew ==
    [kind |-> "LinearRegression", fitted |-> FALSE,
     coef_ |-> FracOfInt(0), intercept_ |-> FracOfInt(0)]

\* sum over lo..hi of 2 * c[i] * y[i] / S, and of y[i] / n (summed by halves)
RECURSIVE SlopeSum(_, _, _)
SlopeSum(ys, lo, hi) ==
    LET n == Len(ys)
        mid == (lo + hi) \div 2
    IN  IF lo = hi
        THEN FracMulInt(FracOfDiv(ys[lo], SumSqC(n)), 2 * (2 * (lo - 1) - (n - 1)))
        ELSE FracAdd(SlopeSum(ys, lo, mid), SlopeSum(ys, mid + 1, hi))

RECURSIVE MeanSum(_, _, _)
MeanSum(ys, lo, hi) ==
    LET mid == (lo + hi) \div 2
    IN  IF lo = hi THEN FracOfDiv(ys[lo], Len(ys))
        ELSE FracAdd(MeanSum(ys, lo, mid), MeanSum(ys, mid + 1, hi))

\* LinearRegression().fit(X, y) for a non-empty y: both coefficients over the
\* denominator 2 * n * S
LinearRegressionFit(ys) ==
    LET n == Len(ys)
        S == SumSqC(n)
        D == IF n = 1 THEN 1 ELSE 2 * n * S
        coef == IF n = 1 THEN FracOfInt(0) ELSE FracRescale(SlopeSum(ys, 1, n), 2 * n)
        shift == IF n = 1 THEN FracOfInt(0)
                 ELSE FracRescale(FracDivInt(FracMulInt(SlopeSum(ys, 1, n), n - 1), 2), n)
        intercept == FracSub(FracRescale(MeanSum(ys, 1, n), D \div n), shift)
    IN  [kind |-> "LinearRegression", fitted |-> TRUE,
         coef_ |-> coef, intercept_ |-> intercept]

\* fallback_model.predict([[x]])
LinearRegressionPredict(lr, x) == FracAdd(lr.intercept_, FracMulInt(lr.coef_, x))

\* ------------------------------------------------------------ Prophet (the seasonal engine)
\* The engine is a library.  What the model keeps of it: fit() raises on fewer
\* than 2 rows; make_future_dataframe(periods, freq='MS') is the history's
\* dates followed by the next `periods` month starts; predict() gives one row
\* per date, a point estimate that is a function of the fitted history alone,
\* and an interval obtained by simulation, which draws from numpy's global
\* generator.
None == [kind |-> "None"]

ProphetNew == [kind |-> "Prophet", fitted |-> FALSE, history |-> <<>>]

ProphetFitRaises(df) == Len(df) < 2

ProphetFit(df) == [kind |-> "Prophet", fitted |-> TRUE, history |-> df]

make_future_dataframe(prophet, periods) ==
    LET h == prophet.history
        n == Len(h)
    IN  [i \in 1..(n + periods) |->
            IF i <= n THEN h[i].ds ELSE MonthStartAfter(h[n].ds, i - n)]

\* the point estimate of row i: the history itself, then the same month of
\* the history's last year
ProphetYhat(prophet, i) ==
    LET h == prophet.history
        n == Len(h)
        P == IF n < 12 THEN n ELSE 12
    IN  IF i <= n THEN h[i].y ELSE h[n - P + ((i - n - 1) % P) + 1].y

\* half the width of the simulated interval, from the state a draw leaves
ProphetWidth(g) == 1 + (g % 5000)

ProphetPredict(prophet, future, g) ==
    LET g1 == NextRng(g)
    IN  [rows |-> [i \in 1..Len(future) |->
                     [date |-> future[i],
                      forecast |-> FracOfInt(ProphetYhat(prophet, i)),
                      lower_bound |-> FracOfInt(ProphetYhat(prophet, i) - ProphetWidth(g1)),
                      upper_bound |-> FracOfInt(ProphetYhat(prophet, i) + ProphetWidth(g1))]],
         rng |-> g1]

\* ------------------------------------------------------------ ZakatTimeSeriesModel
\* __init__: fallback_model and last_month_num do not exist yet
ZakatTimeSeriesModel ==
    [model |-> None, is_fitted |-> FALSE, fallback_model |-> None, last_month_num |-> -1]

\* the y column of a DataFrame
ColumnY(df) == [i \in 1..Len(df) |-> df[i].y]

\* (mutant of _train_fallback: the 24-point minimum applied to the fallback too)
_train_fallback_min24(self, df) ==
    IF Len(df) < 24
    THEN [self |-> self, raised |-> "InsufficientDataError"]
    ELSE [self |-> [self EXCEPT !.fallback_model = LinearRegressionFit(ColumnY(df)),
                                !.last_month_num = Len(df) - 1,
                                !.is_fitted = TRUE],
          raised |-> "None"]

\* _train_fallback(df): LinearRegression.fit raises on an empty frame, after
\* self.fallback_model was set
_train_fallback(self, df) ==
    IF Len(df) = 0
    THEN [self |-> [self EXCEPT !.fallback_model = LinearRegressionNew],
          raised |-> "ValueError"]
    ELSE [self |-> [self EXCEPT !.fallback_model = LinearRegressionFit(ColumnY(df)),
                                !.last_month_num = Len(df) - 1,
                                !.is_fitted = TRUE],
          raised |-> "None"]

\* (mutant of train: the `if not PROPHET_AVAILABLE` branch is missing, so
\* Prophet(...) is a NameError where the import failed)
trainWithoutFallback(self, df, avail) ==
    IF ~avail THEN [self |-> self, raised |-> "NameError"]
    ELSE IF ProphetFitRaises(df)
    THEN [self |-> [self EXCEPT !.model = ProphetNew], raised |-> "ValueError"]
    ELSE [self |-> [self EXCEPT !.model = ProphetFit(df), !.is_fitted = TRUE],
          raised |-> "None"]

\* (mutant of train: an instance that is fitted already is not fitted again)
trainOnce(self, df, avail) ==
    IF self.is_fitted THEN [self |-> self, raised |-> "None"]
    ELSE IF ~avail THEN _train_fallback(self, df)
    ELSE IF ProphetFitRaises(df)
    THEN [self |-> [self EXCEPT !.model = ProphetNew], raised |-> "ValueError"]
    ELSE [self |-> [self EXCEPT !.model = ProphetFit(df), !.is_fitted = TRUE],
          raised |-> "None"]

\* train(df), with PROPHET_AVAILABLE = avail
train(self, df, avail) ==
    IF ~avail THEN _train_fallback(self, df)
    ELSE IF ProphetFitRaises(df)
    THEN [self |-> [self EXCEPT !.model = ProphetNew], raised |-> "ValueError"]
    ELSE [self |-> [self EXCEPT !.model = ProphetFit(df), !.is_fitted = TRUE],
          raised |-> "None"]

\* the envelope _predict_fallback puts around a prediction
FallbackLower(p) == FracScalePct(p, 85)

\* (mutant of FallbackUpper: a 25% envelope above)
FallbackUpperWide(p) == FracScalePct(p, 125)

FallbackUpper(p) == FracScalePct(p, 115)

\* dates = [last_date + timedelta(days=30*i) for i in range(1, periods + 1)]
FallbackDate(i) == AddDays(<<2024, 12, 1>>, 30 * i)

_predict_fallback(self, periods) ==
    [i \in 1..periods |->
        LET p == LinearRegressionPredict(self.fallback_model, self.last_month_num + i)
        IN  [date |-> FallbackDate(i),
             forecast |-> p,
             lower_bound |-> FallbackLower(p),
             upper_bound |-> FallbackUpper(p)]]

\* the branch predict takes: "seasonal" when PROPHET_AVAILABLE and self.model
\* is not None, else "fallback"
PredictBranch(self, avail) ==
    IF avail /\ self.model.kind # "None" THEN "seasonal" ELSE "fallback"

\* (mutant of predict: the `if not self.is_fitted` check is missing)
predictUnchecked(self, periods, avail, g) ==
    IF PredictBranch(self, avail) = "seasonal"
    THEN IF ~self.model.fitted
         THEN [raised |-> "Exception", rows |-> <<>>, used |-> "seasonal", rng |-> g]
         ELSE LET out == ProphetPredict(self.model,
                                        make_future_dataframe(self.model, periods), g)
              IN  [raised |-> "None", rows |-> out.rows, used |-> "seasonal",
                   rng |-> out.rng]
    ELSE IF self.fallback_model.kind = "None"
    THEN [raised |-> "AttributeError", rows |-> <<>>, used |-> "fallback", rng |-> g]
    ELSE IF ~self.fallback_model.fitted
    THEN [raised |-> "NotFittedError", rows |-> <<>>, used |-> "fallback", rng |-> g]
    ELSE [raised |-> "None", rows |-> _predict_fallback(self, periods),
          used |-> "fallback", rng |-> g]

\* predict(periods) with the generator in state g: the rows returned (or the
\* exception raised), the branch taken, and the generator's state afterwards.
\* "ValueError" is ValueError("Model not trained. Call train() first.")
predict(self, periods, avail, g) ==
    IF ~self.is_fitted
    THEN [raised |-> "ValueError", rows |-> <<>>, used |-> "none", rng |-> g]
    ELSE IF PredictBranch(self, avail) = "seasonal"
    THEN IF ~self.model.fitted
         THEN [raised |-> "Exception", rows |-> <<>>, used |-> "seasonal", rng |-> g]
         ELSE LET out == ProphetPredict(self.model,
                                        make_future_dataframe(self.model, periods), g)
              IN  [raised |-> "None", rows |-> out.rows, used |-> "seasonal",
                   rng |-> out.rng]
    ELSE IF self.fallback_model.kind = "None"
    THEN [raised |-> "AttributeError", rows |-> <<>>, used |-> "fallback", rng |-> g]
    ELSE IF ~self.fallback_model.fitted
    THEN [raised |-> "NotFittedError", rows |-> <<>>, used |-> "fallback", rng |-> g]
    ELSE [raised |-> "None", rows |-> _predict_fallback(self, periods),
          used |-> "fallback", rng |-> g]

\* ------------------------------------------------------------ the two cache files
\* historical_collections.csv and forecast_model.pkl: absent, or what
\* to_csv / pickle.dump wrote, or bytes that cannot be parsed
Absent == [kind |-> "absent"]

Garbage == [kind |-> "garbage"]

\* a file between open(path, 'w') / open(path, 'wb') and the end of the write:
\* it exists, and is empty or incomplete.  The csv text of the 60-month series
\* is smaller than the handle's buffer and reaches the file in one write when
\* the handle is closed, so a reader finds the csv file empty or whole; a
\* pickle may be cut anywhere, and a pickle without its end cannot be loaded.
Opened == [kind |-> "opened"]

\* df.to_csv(index=False): the header line, then ds as YYYY-MM-DD text and y
\* as a decimal number text.  pd.DataFrame([]) has no columns, so the file of
\* an empty frame has no ds and no y in its header.
to_csv(df) ==
    [kind |-> "csv",
     header |-> IF Len(df) = 0 THEN <<>> ELSE <<"ds", "y">>,
     rows |-> [i \in 1..Len(df) |->
                 [ds |-> strftime(df[i].ds),
                  y |-> [whole |-> df[i].y \div 100, frac |-> df[i].y % 100]]]]

\* (mutant of read_csv: a file without content is read as an empty frame)
read_csvEmptyFrame(file) ==
    IF file.kind = "opened"
    THEN [raised |-> "None", df |-> <<>>]
    ELSE IF file.kind # "csv"
    THEN [raised |-> "ParserError", df |-> <<>>]
    ELSE IF file.header # <<"ds", "y">>
    THEN [raised |-> "ValueError", df |-> <<>>]
    ELSE [raised |-> "None",
          df |-> [i \in 1..Len(file.rows) |->
                    [ds |-> <<file.rows[i].ds.Y, file.rows[i].ds.m, file.rows[i].ds.d>>,
                     y |-> file.rows[i].y.whole * 100 + file.rows[i].y.frac]]]

\* pd.read_csv(hist_path, parse_dates=['ds']): raises on a file without
\* content, on bytes that are no table, and on a table without the ds column
read_csv(file) ==
    IF file.kind = "opened"
    THEN [raised |-> "EmptyDataError", df |-> <<>>]
    ELSE IF file.kind # "csv"
    THEN [raised |-> "ParserError", df |-> <<>>]
    ELSE IF file.header # <<"ds", "y">>
    THEN [raised |-> "ValueError", df |-> <<>>]
    ELSE [raised |-> "None",
          df |-> [i \in 1..Len(file.rows) |->
                    [ds |-> <<file.rows[i].ds.Y, file.rows[i].ds.m, file.rows[i].ds.d>>,
                     y |-> file.rows[i].y.whole * 100 + file.rows[i].y.frac]]]

\* save(filepath): pickle.dump(self, f)
save(self) == [kind |-> "pickle", obj |-> self]

\* load(filepath): pickle.load(f); a pickle that is not complete raises, and a
\* pickled Prophet object cannot be rebuilt in a process where the prophet
\* package is missing
load(file, avail) ==
    IF file.kind = "absent" THEN [raised |-> "FileNotFoundError", obj |-> ZakatTimeSeriesModel]
    ELSE IF file.kind = "opened" THEN [raised |-> "EOFError", obj |-> ZakatTimeSeriesModel]
    ELSE IF file.kind = "garbage" THEN [raised |-> "UnpicklingError", obj |-> ZakatTimeSeriesModel]
    ELSE IF file.obj.model.kind = "Prophet" /\ ~avail
    THEN [raised |-> "ModuleNotFoundError", obj |-> ZakatTimeSeriesModel]
    ELSE [raised |-> "None", obj |-> file.obj]

\* ------------------------------------------------------------ get_forecast_data
DEFAULT_START_YEAR == 2020
DEFAULT_END_YEAR == 2024

\* (mutant of DfTail: .tail(periods + 1), one row too many)
DfTailOneMore(rows, k) ==
    IF k + 1 >= Len(rows) THEN rows
    ELSE [i \in 1..(k + 1) |-> rows[Len(rows) - (k + 1) + i]]

\* forecast_df.tail(periods)
DfTail(rows, k) ==
    IF k >= Len(rows) THEN rows
    ELSE [i \in 1..k |-> rows[Len(rows) - k + i]]

\* (mutant of ExceptCatches: `except pickle.UnpicklingError:`)
ExceptCatchesUnpicklingOnly(exc) == exc = "UnpicklingError"

\* the bare `except:` around ZakatTimeSeriesModel.load catches every exception
ExceptCatches(exc) == TRUE

\* df.iloc[lo-1 : hi]['y'].sum(), rows lo..hi (1-based), in cents
RECURSIVE SumY(_, _, _)
SumY(df, lo, hi) ==
    IF lo > hi THEN 0 ELSE df[lo].y + SumY(df, lo + 1, hi)

\* (mutant of PrevYearSum: the window iloc[-24:-12] taken as iloc[-23:-11])
PrevYearSumShifted(df) ==
    LET n == Len(df)
    IN  IF n >= 24 THEN SumY(df, n - 22, n - 11) ELSE SumY(df, IF n > 12 THEN n - 11 ELSE 1, n)

\* last_year = historical_df.tail(12)['y'].sum()
LastYearSum(df) ==
    LET n == Len(df)
    IN  SumY(df, IF n > 12 THEN n - 11 ELSE 1, n)

\* prev_year = historical_df.iloc[-24:-12]['y'].sum() if len(historical_df) >= 24
\*             else last_year
PrevYearSum(df) ==
    LET n == Len(df)
    IN  IF n >= 24 THEN SumY(df, n - 23, n - 12) ELSE LastYearSum(df)

\* yoy_growth = ((last_year - prev_year) / prev_year * 100) if prev_year > 0 else 0,
\* and round(yoy_growth, 1): the value in tenths of a percent
YoyGrowth(df) ==
    LET last_year == LastYearSum(df)
        prev_year == PrevYearSum(df)
    IN  IF prev_year > 0
        THEN RoundFrac(FracTimes(FracOfDiv(last_year - prev_year, prev_year), 1000))
        ELSE 0

\* forecast_df.tail(periods)['forecast'].sum(), rows lo..hi of the shown tail
RECURSIVE SumForecast(_, _, _)
SumForecast(rows, lo, hi) ==
    IF lo > hi THEN FracOfInt(0)
    ELSE IF lo = hi THEN rows[lo].forecast
    ELSE FracAdd(rows[lo].forecast, SumForecast(rows, lo + 1, hi))

\* model_info
ModelInfo(avail) ==
    [type |-> IF avail THEN "Prophet" ELSE "Linear Regression (Fallback)",
     seasonality |-> IF avail THEN <<"yearly", "ramadan_cycle">> ELSE <<"none">>,
     confidence_level |-> 80]

NoPayload ==
    [historical |-> <<>>, forecast |-> <<>>,
     summary |-> [total_historical |-> 0, average_monthly |-> 0,
                  total_forecast_12m |-> 0, yoy_growth_percent |-> 0,
                  forecast_periods |-> 0],
     model_info |-> [type |-> "", seasonality |-> <<>>, confidence_level |-> 0]]

\* the response dictionary, from the historical frame and the predicted rows
Payload(historical_df, forecast_df, periods, avail) ==
    LET shown == DfTail(forecast_df, periods)
    IN  [historical |-> [i \in 1..Len(historical_df) |->
                           [date |-> strftime(historical_df[i].ds),
                            amount |-> historical_df[i].y]],
         forecast |-> [i \in 1..Len(shown) |->
                         [date |-> strftime(shown[i].date),
                          forecast |-> RoundFrac(shown[i].forecast),
                          lower_bound |-> RoundFrac(shown[i].lower_bound),
                          upper_bound |-> RoundFrac(shown[i].upper_bound)]],
         summary |-> [total_historical |-> SumY(historical_df, 1, Len(historical_df)),
                      average_monthly |->
                          RoundFrac(FracOfDiv(SumY(historical_df, 1, Len(historical_df)),
                                              Len(historical_df))),
                      total_forecast_12m |-> RoundFrac(SumForecast(shown, 1, Len(shown))),
                      yoy_growth_percent |-> YoyGrowth(historical_df),
                      forecast_periods |-> periods],
         model_info |-> ModelInfo(avail)]

\* "Generate or load historical data": the frame, the file and the generator
\* afterwards
Generated(gen) ==
    [raised |-> "None", df |-> gen.data, hist |-> to_csv(gen.data),
     rng |-> gen.rng, generated |-> TRUE]

Loaded(rd, hist, g) ==
    [raised |-> rd.raised, df |-> rd.df, hist |-> hist, rng |-> g, generated |-> FALSE]

LoadOrGenerate(hist, g) ==
    IF hist.kind # "absent"
    THEN Loaded(read_csv(hist), hist, g)
    ELSE Generated(generate_historical_data(DEFAULT_START_YEAR, DEFAULT_END_YEAR, g))

\* (mutant of TrainAndSave: model.save(model_path) is missing)
TrainAndForget(fresh, modelf) ==
    [raised |-> fresh.raised, model |-> fresh.self, modelf |-> modelf,
     loadFailed |-> modelf.kind # "absent", trained |-> fresh.raised = "None"]

\* "Train or load model": the model object and the file afterwards.
\* model = ZakatTimeSeriesModel(); model.train(historical_df); model.save(model_path)
TrainAndSave(fresh, modelf) ==
    [raised |-> fresh.raised, model |-> fresh.self,
     modelf |-> IF fresh.raised = "None" THEN save(fresh.self) ELSE modelf,
     loadFailed |-> modelf.kind # "absent", trained |-> fresh.raised = "None"]

\* (mutant of TryLoad: the loaded model is discarded and a new one trained)
TryLoadThenTrain(ld, modelf, historical_df, avail) ==
    TrainAndSave(train(ZakatTimeSeriesModel, historical_df, avail), modelf)

\* try: model = ZakatTimeSeriesModel.load(model_path) / except: train and save
TryLoad(ld, modelf, historical_df, avail) ==
    IF ld.raised = "None"
    THEN [raised |-> "None", model |-> ld.obj, modelf |-> modelf,
          loadFailed |-> FALSE, trained |-> FALSE]
    ELSE IF ExceptCatches(ld.raised)
    THEN TrainAndSave(train(ZakatTimeSeriesModel, historical_df, avail), modelf)
    ELSE [raised |-> ld.raised, model |-> ZakatTimeSeriesModel, modelf |-> modelf,
          loadFailed |-> TRUE, trained |-> FALSE]

LoadOrTrain(modelf, historical_df, avail) ==
    IF modelf.kind = "absent"
    THEN TrainAndSave(train(ZakatTimeSeriesModel, historical_df, avail), modelf)
    ELSE TryLoad(load(modelf, avail), modelf, historical_df, avail)

\* what a call that raises leaves behind
Failed(exc, hist, modelf, g, loadFailed, generated) ==
    [raised |-> exc, payload |-> NoPayload, forecast_df |-> <<>>,
     hist |-> hist, modelf |-> modelf, rng |-> g,
     used |-> "none", loadFailed |-> loadFailed, trained |-> FALSE,
     generated |-> generated]

\* "Generate forecast" and "Prepare response", with the frame h, the model m
\* and the prediction pr in hand
Respond(h, m, pr, periods, avail) ==
    IF pr.raised # "None"
    THEN Failed(pr.raised, h.hist, m.modelf, pr.rng, m.loadFailed, h.generated)
    ELSE [raised |-> "None",
          payload |-> Payload(h.df, pr.rows, periods, avail),
          forecast_df |-> pr.rows,
          hist |-> h.hist, modelf |-> m.modelf, rng |-> pr.rng,
          used |-> pr.used, loadFailed |-> m.loadFailed, trained |-> m.trained,
          generated |-> h.generated]

WithModel(h, m, periods, avail) ==
    IF m.raised # "None"
    THEN Failed(m.raised, h.hist, m.modelf, h.rng, m.loadFailed, h.generated)
    ELSE Respond(h, m, predict(m.model, periods, avail, h.rng), periods, avail)

WithHistory(h, periods, modelf, avail) ==
    IF h.raised # "None"
    THEN Failed(h.raised, h.hist, modelf, h.rng, FALSE, h.generated)
    ELSE WithModel(h, LoadOrTrain(modelf, h.df, avail), periods, avail)

\* get_forecast_data(periods) with the files and the generator as given: what
\* it returns or raises, and the files and the generator afterwards.
\* (forecast_df, used, loadFailed, trained, generated record the path taken.)
get_forecast_data(periods, hist, modelf, avail, g) ==
    WithHistory(LoadOrGenerate(hist, g), periods, modelf, avail)

\* ------------------------------------------------------------ anonymization.py
\* float('inf'): above every amount
inf == 2147483647

INCOME_BUCKETS ==
    << <<0, 20000, "Low">>,
       <<20000, 50000, "Lower-Middle">>,
       <<50000, 100000, "Middle">>,
       <<100000, 200000, "Upper-Middle">>,
       <<200000, inf, "High">> >>

WEALTH_BUCKETS ==
    << <<0, 22000, "Below Nisab">>,
       <<22000, 50000, "Nisab-50K">>,
       <<50000, 100000, "50K-100K">>,
       <<100000, 250000, "100K-250K">>,
       <<250000, inf, "250K+">> >>

\* for min_val, max_val, label in buckets: the first bucket from position i
\* with min_val <= value < max_val, else the label after the loop
RECURSIVE FirstBucket(_, _, _, _)
FirstBucket(buckets, i, value, otherwise) ==
    IF i > Len(buckets) THEN otherwise
    ELSE IF buckets[i][1] <= value /\ value < buckets[i][2] THEN buckets[i][3]
    ELSE FirstBucket(buckets, i + 1, value, otherwise)

\* bucket_income(income) for a number
bucket_income(income) == FirstBucket(INCOME_BUCKETS, 1, income, "High")

\* bucket_wealth(wealth) for a number
bucket_wealth(wealth) == FirstBucket(WEALTH_BUCKETS, 1, wealth, "250K+")

\* amounts in RM: below zero, zero, and around every bucket boundary
MaxAmount == 300000

Boundaries == {0, 20000, 22000, 50000, 100000, 200000, 250000}

BucketInputs == {b - 1 : b \in Boundaries} \cup Boundaries \cup {b + 1 : b \in Boundaries}
               \cup {-MaxAmount, MaxAmount}

NoCall == [fn |-> "none", value |-> 0, label |-> ""]

NoAnon == [last |-> NoCall, before |-> NoCall]

\* ------------------------------------------------------------ app.py and database.py
\* A text a client sends: its letters lower-cased and stripped (body), whether
\* it came with upper-case letters, whether with blanks around it.  A
\* password is the sequence of its characters.
Text(body, cased, padded) == [body |-> body, cased |-> cased, padded |-> padded]

\* str.strip() and str.lower()
strip(text) == [text EXCEPT !.padded = FALSE]

lower(text) == [text EXCEPT !.cased = FALSE]

\* `not text`: the empty string
Empty(text) == text.body = "" /\ ~text.padded

\* werkzeug: generate_password_hash(password), check_password_hash(hash, password)
generate_password_hash(password) == <<"pbkdf2", password>>

check_password_hash(hash, password) == hash = generate_password_hash(password)

Admin123 == <<"a", "d", "m", "i", "n", "1", "2", "3">>
User123 == <<"u", "s", "e", "r", "1", "2", "3">>
Password == <<"p", "a", "s", "s", "w", "o", "r", "d">>

\* seed_demo_users(): (email, password, name, role)
demo_users ==
    << <<Text("admin@zakatech.com", FALSE, FALSE), Admin123, Text("Admin User", TRUE, FALSE), "admin">>,
       <<Text("user@zakatech.com", FALSE, FALSE), User123, Text("Demo Muzakki", TRUE, FALSE), "user">>,
       <<Text("ahmad@example.com", FALSE, FALSE), Password, Text("Ahmad bin Abdullah", TRUE, FALSE), "user">> >>

\* the users table after init_database() and seed_demo_users() on a new
\* database: id is the AUTOINCREMENT key
SeededUsers ==
    [i \in 1..Len(demo_users) |->
        [id |-> i, email |-> demo_users[i][1],
         password_hash |-> generate_password_hash(demo_users[i][2]),
         full_name |-> demo_users[i][3], role |-> demo_users[i][4]]]

\* user_profiles after seed_demo_users(): a profile for every role 'user'
SeededProfiles ==
    SelectSeq([i \in 1..Len(demo_users) |-> [user_id |-> i, age |-> 30, income |-> 0, savings |-> 0]],
              LAMBDA row : demo_users[row.user_id][4] = "user")

\* SELECT ... FROM users WHERE email = ?: the rows found
SelectByEmail(users, email) == SelectSeq(users, LAMBDA row : row.email = email)

\* (mutant of UniqueEmail: the users table without `email TEXT UNIQUE`)
UniqueEmailDropped(users, email) == TRUE

\* `email TEXT UNIQUE NOT NULL`: an INSERT of this email is accepted
UniqueEmail(users, email) == Len(SelectByEmail(users, email)) = 0

\* the Flask session of one client: the keys it holds and their values
NoSession ==
    [keys |-> {}, user_id |-> 0, email |-> Text("", FALSE, FALSE),
     full_name |-> Text("", FALSE, FALSE), role |-> ""]

\* (mutant of session_clear: logout removes the role only)
session_pop_role(session) == [session EXCEPT !.keys = @ \ {"role"}, !.role = ""]

\* session.clear()
session_clear(session) == NoSession

\* session['user_id'] = user['id'] ... session['role'] = user['role']
session_set(user) ==
    [keys |-> {"user_id", "email", "full_name", "role"}, user_id |-> user.id,
     email |-> user.email, full_name |-> user.full_name, role |-> user.role]

\* login_required: the status it answers with, 0 when it calls the handler
login_required(session) ==
    IF "user_id" \notin session.keys THEN 401 ELSE 0

\* admin_required: the status it answers with, 0 when it calls the handler
admin_required(session) ==
    IF "user_id" \notin session.keys THEN 401
    ELSE IF ~("role" \in session.keys /\ session.role = "admin") THEN 403
    ELSE 0

\* the browsers using the application, each with its session cookie;
\* each can have one register request in progress
Clients == 1..MaxClients

NoRequest ==
    [pc |-> "idle", email |-> Text("", FALSE, FALSE), password |-> <<>>,
     full_name |-> Text("", FALSE, FALSE), registered |-> FALSE,
     raw |-> Text("", FALSE, FALSE)]

NoReply ==
    [client |-> 0, endpoint |-> "none", status |-> 0, ran |-> FALSE,
     session |-> NoSession, phase |-> "new", registered |-> FALSE,
     email |-> Text("", FALSE, FALSE), raw |-> Text("", FALSE, FALSE)]

\* after init_database() and seed_demo_users(); writer is the client whose
\* connection holds sqlite's write lock (0: none); phase records per client
\* whether it has logged in and whether its last login or logout was a logout
SiteAtStartup ==
    [users |-> SeededUsers,
     user_profiles |-> SeededProfiles,
     sessions |-> [c \in Clients |-> NoSession],
     phase |-> [c \in Clients |-> "new"],
     requests |-> [c \in Clients |-> NoRequest],
     writer |-> 0,
     registers |-> 0,
     reply |-> NoReply]

\* ------------------------------------------------------------ state
VARIABLES
    PROPHET_AVAILABLE,  \* the module global set at import
    rng,                \* the state of numpy's global generator
    draws,              \* draws taken by code outside this module (bounded)
    histFile,           \* historical_collections.csv
    modelFile,          \* forecast_model.pkl
    calls,              \* get_forecast_data calls made (bounded)
    resp,               \* the last get_forecast_data call: arguments and result
    quiet,              \* nothing has happened since that call returned
    inst,               \* a ZakatTimeSeriesModel object a caller holds
    out,                \* what the last train / predict call on inst did, and
                        \* whether a train call on inst has returned normally;
                        \* df is the frame of the last train call, trains counts
                        \* the calls (up to 2), refit tells that the call before
                        \* it had another series of two points or more, entry is
                        \* the generator's state when predict began
    gen,                \* the last generate_historical_data call: arguments, the
                        \* frame returned, and the value of draws at the call
    ref,                \* an earlier generate_historical_data call, kept to compare
    workers,            \* worker processes inside get_forecast_data at the same
                        \* time: where each one is and what it holds
    site,               \* the web application: its tables, the sessions of its
                        \* clients, the requests in progress, the last reply
    anon                \* the last two bucket_income / bucket_wealth calls

vars == <<PROPHET_AVAILABLE, rng, draws, histFile, modelFile, calls, resp, quiet,
          inst, out, gen, ref, workers, site, anon>>

Periods == 1..MaxPeriods

Years == 2024..(2024 + MaxYearSpan)

\* hand-made frames: first-of-month dates from a start month, values in cents
Values == {0, 1000}

StartMonths == {<<2024, 10, 1>>, <<2025, 2, 1>>}

Frame(start, ys) ==
    [i \in 1..Len(ys) |-> [ds |-> MonthStartAfter(start, i - 1), y |-> ys[i]]]

TrainingFrames ==
    {Frame(start, ys) : start \in StartMonths,
                        ys \in UNION {[1..n -> Values] : n \in 0..MaxLen}}

\* series a historical_collections.csv may hold besides the default one:
\* save_historical_data(generate_historical_data(start_year, 2024)), and
\* hand-made series of n months worth `prev` each, the last 12 worth `last`
HistLens == {23, 24, 25}

HistValues == {0, 1000, 1507}

BlockFrame(n, prev, last) ==
    [i \in 1..n |-> [ds |-> MonthStartAfter(<<2022, 1, 1>>, i - 1),
                     y |-> IF i > n - 12 THEN last ELSE prev]]

HistoryFrames ==
    {BlockFrame(n, prev, last) : n \in HistLens, prev \in HistValues, last \in HistValues}
    \cup {generate_historical_data(start_year, 2024, 0).data : start_year \in 2023..2025}

NoResp ==
    [called |-> FALSE, periods |-> 0, avail |-> FALSE, warm |-> FALSE,
     histBefore |-> "absent", modelBefore |-> "absent",
     raised |-> "None", payload |-> NoPayload, forecast_df |-> <<>>, used |-> "none",
     loadFailed |-> FALSE, trained |-> FALSE, generated |-> FALSE]

NoOut == [op |-> "none", raised |-> "None", rows |-> <<>>, used |-> "none",
          periods |-> 0, df |-> <<>>, completed |-> FALSE,
          trains |-> 0, refit |-> FALSE, entry |-> 0]

NoGen == [called |-> FALSE, start_year |-> 0, end_year |-> 0, at |-> 0, data |-> <<>>]

\* worker processes that serve requests side by side, sharing the two files
Workers == 1..MaxWorkers

Idle ==
    [pc |-> "idle", periods |-> 0, df |-> <<>>, model |-> ZakatTimeSeriesModel,
     generated |-> FALSE, trained |-> FALSE, raised |-> "None"]

Init ==
    /\ PROPHET_AVAILABLE \in BOOLEAN
    /\ rng \in 0..MaxEntropy
    /\ draws = 0
    /\ histFile = Absent
    /\ modelFile = Absent
    /\ calls = 0
    /\ resp = NoResp
    /\ quiet = FALSE
    /\ inst = ZakatTimeSeriesModel
    /\ out = NoOut
    /\ gen = NoGen
    /\ ref = NoGen
    /\ workers = [w \in Workers |-> Idle]
    /\ site = SiteAtStartup
    /\ anon = NoAnon

\* ------------------------------------------------------------ the forecast service
\* both cache files exist and can be loaded in this process
WarmCache ==
    /\ read_csv(histFile).raised = "None"
    /\ load(modelFile, PROPHET_AVAILABLE).raised = "None"

GetForecast(periods) ==
    /\ calls < MaxCalls
    /\ \E r \in {get_forecast_data(periods, histFile, modelFile, PROPHET_AVAILABLE, rng)} :
           /\ histFile' = r.hist
           /\ modelFile' = r.modelf
           /\ rng' = r.rng
           /\ resp' = [called |-> TRUE, periods |-> periods, avail |-> PROPHET_AVAILABLE,
                       warm |-> WarmCache, histBefore |-> histFile.kind,
                       modelBefore |-> modelFile.kind,
                       raised |-> r.raised, payload |-> r.payload,
                       forecast_df |-> r.forecast_df,
                       used |-> r.used, loadFailed |-> r.loadFailed,
                       trained |-> r.trained, generated |-> r.generated]
    /\ calls' = calls + 1
    /\ quiet' = TRUE
    /\ UNCHANGED <<PROPHET_AVAILABLE, draws, inst, out, gen, ref, workers, site, anon>>

\* the process ends and a new one imports the module: prophet may have been
\* installed or removed, the generator starts from fresh entropy, objects in
\* memory are gone, the files stay
Restart(avail) ==
    /\ PROPHET_AVAILABLE' = avail
    /\ rng' \in 0..MaxEntropy
    /\ inst' = ZakatTimeSeriesModel
    /\ out' = NoOut
    /\ quiet' = FALSE
    /\ UNCHANGED <<draws, histFile, modelFile, calls, resp, gen, ref, workers, site, anon>>

\* forecast_model.pkl is damaged on disk
CorruptModelFile ==
    /\ modelFile.kind = "pickle"
    /\ modelFile' = Garbage
    /\ quiet' = FALSE
    /\ UNCHANGED <<PROPHET_AVAILABLE, rng, draws, histFile, calls, resp, inst, out, gen, ref, workers, site, anon>>

\* historical_collections.csv is damaged on disk
CorruptHistFile ==
    /\ histFile.kind = "csv"
    /\ histFile' = Garbage
    /\ quiet' = FALSE
    /\ UNCHANGED <<PROPHET_AVAILABLE, rng, draws, modelFile, calls, resp, inst, out, gen, ref, workers, site, anon>>

\* a cache file is deleted
RemoveModelFile ==
    /\ modelFile.kind # "absent"
    /\ modelFile' = Absent
    /\ quiet' = FALSE
    /\ UNCHANGED <<PROPHET_AVAILABLE, rng, draws, histFile, calls, resp, inst, out, gen, ref, workers, site, anon>>

RemoveHistFile ==
    /\ histFile.kind # "absent"
    /\ histFile' = Absent
    /\ quiet' = FALSE
    /\ UNCHANGED <<PROPHET_AVAILABLE, rng, draws, modelFile, calls, resp, inst, out, gen, ref, workers, site, anon>>

\* other code of the process draws from numpy's global generator
\* (np.random.normal in generate_donor_data)
OtherDraw ==
    /\ draws < MaxDraws
    /\ rng' = NextRng(rng)
    /\ draws' = draws + 1
    /\ quiet' = FALSE
    /\ UNCHANGED <<PROPHET_AVAILABLE, histFile, modelFile, calls, resp, inst, out, gen, ref, workers, site, anon>>

\* ------------------------------------------------------------ get_forecast_data, step by step
\* The same function as run by several worker processes at once: each file
\* system call is a step of its own, and nothing in the function takes a lock.
\* (Each process has its own PROPHET_AVAILABLE import result and generator;
\* the processes of one deployment share the installation, hence the flag.)
Others == <<PROPHET_AVAILABLE, rng, draws, calls, resp, quiet, inst, out, gen, ref, site, anon>>

At(w, pc) == workers[w].pc = pc

Goto(w, pc) == workers' = [workers EXCEPT ![w].pc = pc]

\* def get_forecast_data(periods)
Enter(w, periods) ==
    /\ At(w, "idle")
    /\ workers' = [workers EXCEPT ![w].pc = "exists_hist", ![w].periods = periods]
    /\ UNCHANGED <<histFile, modelFile>>
    /\ UNCHANGED Others

\* if os.path.exists(hist_path)
ExistsHist(w) ==
    /\ At(w, "exists_hist")
    /\ Goto(w, IF histFile.kind # "absent" THEN "read_hist" ELSE "generate_hist")
    /\ UNCHANGED <<histFile, modelFile>>
    /\ UNCHANGED Others

\* historical_df = pd.read_csv(hist_path, parse_dates=['ds'])
ReadHist(w) ==
    /\ At(w, "read_hist")
    /\ \E rd \in {read_csv(histFile)} :
           workers' = [workers EXCEPT ![w].pc = IF rd.raised = "None" THEN "exists_model"
                                                ELSE "raised",
                                      ![w].df = rd.df,
                                      ![w].raised = rd.raised]
    /\ UNCHANGED <<histFile, modelFile>>
    /\ UNCHANGED Others

\* historical_df = generate_historical_data(); save_historical_data opens
\* hist_path for writing, which creates or empties the file in place
GenerateHist(w) ==
    /\ At(w, "generate_hist")
    /\ \E g \in {generate_historical_data(DEFAULT_START_YEAR, DEFAULT_END_YEAR, 0)} :
           /\ workers' = [workers EXCEPT ![w].pc = "write_hist", ![w].df = g.data,
                                          ![w].generated = TRUE]
           /\ histFile' = Opened
    /\ UNCHANGED modelFile
    /\ UNCHANGED Others

\* df.to_csv(filepath, index=False): the buffered text reaches the file
\* when the handle is closed
WriteHist(w) ==
    /\ At(w, "write_hist")
    /\ Goto(w, "exists_model")
    /\ histFile' = to_csv(workers[w].df)
    /\ UNCHANGED modelFile
    /\ UNCHANGED Others

\* if os.path.exists(model_path)
ExistsModel(w) ==
    /\ At(w, "exists_model")
    /\ Goto(w, IF modelFile.kind # "absent" THEN "load_model" ELSE "train_model")
    /\ UNCHANGED <<histFile, modelFile>>
    /\ UNCHANGED Others

\* try: model = ZakatTimeSeriesModel.load(model_path) / except: (train)
LoadModel(w) ==
    /\ At(w, "load_model")
    /\ \E ld \in {load(modelFile, PROPHET_AVAILABLE)} :
           workers' = [workers EXCEPT ![w].pc = IF ld.raised = "None" THEN "predict"
                                                ELSE IF ExceptCatches(ld.raised)
                                                THEN "train_model" ELSE "raised",
                                      ![w].model = ld.obj,
                                      ![w].raised = IF ExceptCatches(ld.raised) THEN "None"
                                                    ELSE ld.raised]
    /\ UNCHANGED <<histFile, modelFile>>
    /\ UNCHANGED Others

\* model = ZakatTimeSeriesModel(); model.train(historical_df); model.save opens
\* model_path for writing, which creates or empties the file in place
TrainModel(w) ==
    /\ At(w, "train_model")
    /\ \E t \in {train(ZakatTimeSeriesModel, workers[w].df, PROPHET_AVAILABLE)} :
           /\ workers' = [workers EXCEPT ![w].pc = IF t.raised = "None" THEN "write_model"
                                                   ELSE "raised",
                                          ![w].model = t.self,
                                          ![w].trained = t.raised = "None",
                                          ![w].raised = t.raised]
           /\ modelFile' = IF t.raised = "None" THEN Opened ELSE modelFile
    /\ UNCHANGED histFile
    /\ UNCHANGED Others

\* pickle.dump(self, f), and the file is closed
WriteModel(w) ==
    /\ At(w, "write_model")
    /\ Goto(w, "predict")
    /\ modelFile' = save(workers[w].model)
    /\ UNCHANGED histFile
    /\ UNCHANGED Others

\* forecast_df = model.predict(periods), and the response is built and returned
Return(w) ==
    /\ At(w, "predict")
    /\ \E pr \in {predict(workers[w].model, workers[w].periods, PROPHET_AVAILABLE, 0)} :
           workers' = [workers EXCEPT ![w].pc = IF pr.raised = "None" THEN "returned"
                                                ELSE "raised",
                                      ![w].raised = pr.raised]
    /\ UNCHANGED <<histFile, modelFile>>
    /\ UNCHANGED Others

\* ------------------------------------------------------------ the model object
Train(df) ==
    /\ \E t \in {train(inst, df, PROPHET_AVAILABLE)} :
           /\ inst' = t.self
           /\ out' = [op |-> "train", raised |-> t.raised, rows |-> <<>>, used |-> "none",
                      periods |-> 0, df |-> df,
                      completed |-> out.completed \/ t.raised = "None",
                      trains |-> IF out.trains < 2 THEN out.trains + 1 ELSE 2,
                      refit |-> /\ out.trains >= 1 /\ Len(out.df) >= 2 /\ Len(df) >= 2
                                /\ ColumnY(out.df) # ColumnY(df),
                      entry |-> 0]
    /\ UNCHANGED <<PROPHET_AVAILABLE, rng, draws, histFile, modelFile, calls, resp, quiet, gen, ref, workers, site, anon>>

Predict(periods) ==
    /\ PredictBranch(inst, PROPHET_AVAILABLE) = "seasonal" /\ inst.is_fitted => draws < MaxDraws
    /\ \E pr \in {predict(inst, periods, PROPHET_AVAILABLE, rng)} :
           /\ out' = [op |-> "predict", raised |-> pr.raised, rows |-> pr.rows,
                      used |-> pr.used, periods |-> periods, df |-> out.df,
                      completed |-> out.completed, trains |-> out.trains,
                      refit |-> out.refit, entry |-> rng]
           /\ rng' = pr.rng
           /\ draws' = IF pr.rng = rng THEN draws ELSE draws + 1
    /\ UNCHANGED <<PROPHET_AVAILABLE, histFile, modelFile, calls, resp, quiet, inst, gen, ref, workers, site, anon>>

NewInstance ==
    /\ inst' = ZakatTimeSeriesModel
    /\ out' = NoOut
    /\ UNCHANGED <<PROPHET_AVAILABLE, rng, draws, histFile, modelFile, calls, resp, quiet, gen, ref, workers, site, anon>>

\* ------------------------------------------------------------ the synthesizer
\* generate_historical_data(start_year, end_year); keep is the observer's
\* choice to remember this call for a later comparison
Generate(start_year, end_year, keep) ==
    /\ \E r \in {generate_historical_data(start_year, end_year, rng)} :
           /\ rng' = r.rng
           /\ gen' = [called |-> TRUE, start_year |-> start_year,
                      end_year |-> end_year, at |-> draws, data |-> r.data]
           /\ ref' = IF keep THEN gen' ELSE ref
    /\ UNCHANGED <<PROPHET_AVAILABLE, draws, histFile, modelFile, calls, resp, quiet, inst, out,
                   workers, site, anon>>

\* ------------------------------------------------------------ the bucketing functions
Forecasting ==
    <<PROPHET_AVAILABLE, rng, draws, histFile, modelFile, calls, resp, quiet,
      inst, out, gen, ref, workers>>

BucketIncome(income) ==
    /\ anon' = [last |-> [fn |-> "bucket_income", value |-> income,
                          label |-> bucket_income(income)],
                before |-> anon.last]
    /\ UNCHANGED site
    /\ UNCHANGED Forecasting

BucketWealth(wealth) ==
    /\ anon' = [last |-> [fn |-> "bucket_wealth", value |-> wealth,
                          label |-> bucket_wealth(wealth)],
                before |-> anon.last]
    /\ UNCHANGED site
    /\ UNCHANGED Forecasting

\* ------------------------------------------------------------ the web application
\* what clients send
LoginEmails ==
    {Text("admin@zakatech.com", FALSE, FALSE), Text("admin@zakatech.com", TRUE, TRUE),
     Text("user@zakatech.com", FALSE, FALSE), Text("nobody@example.com", FALSE, FALSE),
     Text("", FALSE, TRUE)}

LoginPasswords == {Admin123, User123, <<>>}

RegisterEmails ==
    {Text("aminah@example.com", FALSE, FALSE), Text("aminah@example.com", TRUE, TRUE),
     Text("user@zakatech.com", TRUE, FALSE), Text("", FALSE, TRUE)}

RegisterPasswords == {Password, <<"a", "b", "c">>}

RegisterNames == {Text("Aminah", TRUE, TRUE), Text("", FALSE, FALSE)}

Reply(c, endpoint, status, ran) ==
    [client |-> c, endpoint |-> endpoint, status |-> status, ran |-> ran,
     session |-> site.sessions[c], phase |-> site.phase[c], registered |-> FALSE,
     email |-> Text("", FALSE, FALSE), raw |-> Text("", FALSE, FALSE)]

\* POST /api/auth/login
Login(c, email_raw, password) ==
    /\ LET email == lower(strip(email_raw))
           found == SelectByEmail(site.users, email)
       IN  IF Empty(email) \/ password = <<>>
           THEN site' = [site EXCEPT !.reply = Reply(c, "login", 400, FALSE)]
           ELSE IF Len(found) = 0 \/ ~check_password_hash(found[1].password_hash, password)
           THEN site' = [site EXCEPT !.reply = Reply(c, "login", 401, FALSE)]
           ELSE site' = [site EXCEPT !.sessions[c] = session_set(found[1]),
                                     !.phase[c] = "in",
                                     !.reply = Reply(c, "login", 200, TRUE)]
    /\ UNCHANGED anon
    /\ UNCHANGED Forecasting

\* POST /api/auth/logout
Logout(c) ==
    /\ site' = [site EXCEPT !.sessions[c] = session_clear(@),
                            !.phase[c] = IF @ \in {"in", "out"} THEN "out" ELSE "out_new",
                            !.reply = Reply(c, "logout", 200, TRUE)]
    /\ UNCHANGED anon
    /\ UNCHANGED Forecasting

\* a request to an endpoint under @login_required (/api/user/...)
UserEndpoint(c) ==
    /\ \E st \in {login_required(site.sessions[c])} :
           site' = [site EXCEPT !.reply = Reply(c, "login_required",
                                                IF st = 0 THEN 200 ELSE st, st = 0)]
    /\ UNCHANGED anon
    /\ UNCHANGED Forecasting

\* a request to an endpoint under @admin_required (/api/admin/...)
AdminEndpoint(c) ==
    /\ \E st \in {admin_required(site.sessions[c])} :
           site' = [site EXCEPT !.reply = Reply(c, "admin_required",
                                                IF st = 0 THEN 200 ELSE st, st = 0)]
    /\ UNCHANGED anon
    /\ UNCHANGED Forecasting

\* POST /api/auth/register, step by step: every request runs in a thread of
\* its own with a connection of its own
RegisterReply(c, r, status, committed) ==
    [client |-> c, endpoint |-> "register", status |-> status, ran |-> committed,
     session |-> site.sessions[c], phase |-> site.phase[c],
     registered |-> r.registered, email |-> r.email, raw |-> r.raw]

\* the fields are read and validated
RegisterEnter(c, email_raw, password, name_raw) ==
    /\ site.requests[c].pc = "idle"
    /\ site.registers < MaxRegisters
    /\ LET email == lower(strip(email_raw))
           full_name == strip(name_raw)
           r == [pc |-> "select", email |-> email, password |-> password,
                 full_name |-> full_name,
                 registered |-> Len(SelectByEmail(site.users, email)) > 0,
                 raw |-> email_raw]
       IN  IF Empty(email) \/ password = <<>> \/ Empty(full_name) \/ Len(password) < 6
           THEN site' = [site EXCEPT !.reply = RegisterReply(c, r, 400, FALSE),
                                     !.registers = @ + 1]
           ELSE site' = [site EXCEPT !.requests[c] = r, !.registers = @ + 1]
    /\ UNCHANGED anon
    /\ UNCHANGED Forecasting

\* cursor.execute('SELECT id FROM users WHERE email = ?'); if cursor.fetchone()
RegisterSelect(c) ==
    /\ site.requests[c].pc = "select"
    /\ IF Len(SelectByEmail(site.users, site.requests[c].email)) > 0
       THEN site' = [site EXCEPT !.reply = RegisterReply(c, site.requests[c], 400, FALSE),
                                 !.requests[c] = NoRequest]
       ELSE site' = [site EXCEPT !.requests[c].pc = "insert"]
    /\ UNCHANGED anon
    /\ UNCHANGED Forecasting

\* INSERT INTO users, INSERT INTO user_profiles: the first INSERT opens the
\* transaction and takes the write lock; sqlite3.IntegrityError on a taken
\* email is caught by `except Exception` (500)
RegisterInsert(c) ==
    /\ site.requests[c].pc = "insert"
    /\ site.writer = 0
    /\ IF UniqueEmail(site.users, site.requests[c].email)
       THEN site' = [site EXCEPT !.requests[c].pc = "commit", !.writer = c]
       ELSE site' = [site EXCEPT !.reply = RegisterReply(c, site.requests[c], 500, FALSE),
                                 !.requests[c] = NoRequest]
    /\ UNCHANGED anon
    /\ UNCHANGED Forecasting

\* the write lock is held by another connection for longer than the
\* connection's timeout: sqlite3.OperationalError, caught (500)
RegisterBusy(c) ==
    /\ site.requests[c].pc = "insert"
    /\ site.writer # 0
    /\ site' = [site EXCEPT !.reply = RegisterReply(c, site.requests[c], 500, FALSE),
                            !.requests[c] = NoRequest]
    /\ UNCHANGED anon
    /\ UNCHANGED Forecasting

\* conn.commit(): both rows appear, the lock is released
RegisterCommit(c) ==
    /\ site.requests[c].pc = "commit"
    /\ LET r == site.requests[c]
           user_id == Len(site.users) + 1
       IN  site' = [site EXCEPT
                      !.users = Append(@, [id |-> user_id, email |-> r.email,
                                           password_hash |-> generate_password_hash(r.password),
                                           full_name |-> r.full_name, role |-> "user"]),
                      !.user_profiles = Append(@, [user_id |-> user_id, age |-> 30,
                                                   income |-> 0, savings |-> 0]),
                      !.writer = 0,
                      !.reply = RegisterReply(c, r, 200, TRUE),
                      !.requests[c] = NoRequest]
    /\ UNCHANGED anon
    /\ UNCHANGED Forecasting

\* ------------------------------------------------------------ specifications
NextAuth ==
    \E c \in Clients :
        \/ \E email \in LoginEmails, password \in LoginPasswords : Login(c, email, password)
        \/ Logout(c)
        \/ UserEndpoint(c)
        \/ AdminEndpoint(c)

SpecAuth == Init /\ [][NextAuth]_vars

NextRegister ==
    \E c \in Clients :
        \/ \E email \in RegisterEmails, password \in RegisterPasswords,
              full_name \in RegisterNames : RegisterEnter(c, email, password, full_name)
        \/ RegisterSelect(c)
        \/ RegisterInsert(c)
        \/ RegisterBusy(c)
        \/ RegisterCommit(c)

SpecRegister == Init /\ [][NextRegister]_vars

NextAnon ==
    \/ \E income \in BucketInputs : BucketIncome(income)
    \/ \E wealth \in BucketInputs : BucketWealth(wealth)

SpecAnon == Init /\ [][NextAnon]_vars

Next ==
    \/ \E periods \in Periods : GetForecast(periods)
    \/ \E avail \in BOOLEAN : Restart(avail)
    \/ CorruptModelFile
    \/ RemoveModelFile
    \/ RemoveHistFile
    \/ OtherDraw

Spec == Init /\ [][Next]_vars

NextModel ==
    \/ \E df \in TrainingFrames : Train(df)
    \/ \E periods \in Periods : Predict(periods)
    \/ NewInstance

SpecModel == Init /\ [][NextModel]_vars

NextGen ==
    \/ \E start_year \in Years, end_year \in Years, keep \in BOOLEAN :
          Generate(start_year, end_year, keep)
    \/ OtherDraw

SpecGen == Init /\ [][NextGen]_vars

NextRace ==
    \E w \in Workers :
        \/ \E periods \in {1, MaxPeriods} : Enter(w, periods)
        \/ ExistsHist(w)
        \/ ReadHist(w)
        \/ GenerateHist(w)
        \/ WriteHist(w)
        \/ ExistsModel(w)
        \/ LoadModel(w)
        \/ TrainModel(w)
        \/ WriteModel(w)
        \/ Return(w)

\* (the workers draw nothing from the generator of this process)
InitRace == Init /\ rng = 0

SpecRace == InitRace /\ [][NextRace]_vars

\* the forecast service started on a historical_collections.csv that an
\* earlier save_historical_data call left (or on none)
InitFiles ==
    /\ PROPHET_AVAILABLE \in BOOLEAN
    /\ rng = 0
    /\ draws = 0
    /\ histFile \in {Absent} \cup {to_csv(df) : df \in HistoryFrames}
    /\ modelFile = Absent
    /\ calls = 0
    /\ resp = NoResp
    /\ quiet = FALSE
    /\ inst = ZakatTimeSeriesModel
    /\ out = NoOut
    /\ gen = NoGen
    /\ ref = NoGen
    /\ workers = [w \in Workers |-> Idle]
    /\ site = SiteAtStartup
    /\ anon = NoAnon

NextFiles ==
    \/ \E periods \in Periods : GetForecast(periods)
    \/ CorruptHistFile
    \/ CorruptModelFile
    \/ RemoveModelFile
    \/ RemoveHistFile

SpecFiles == InitFiles /\ [][NextFiles]_vars

\* ------------------------------------------------------------ properties
RespOk == resp.called /\ resp.raised = "None"

\* C1: every forecast point returned by predict has
\* lower_bound <= forecast <= upper_bound.
C1_BoundsOrdered ==
    (out.op = "predict" /\ out.raised = "None") =>
        \A i \in 1..Len(out.rows) :
            /\ FracLeq(out.rows[i].lower_bound, out.rows[i].forecast)
            /\ FracLeq(out.rows[i].forecast, out.rows[i].upper_bound)

\* C2: the forecast dates of a response are the first days of the `periods`
\* months that follow the last month of the historical series.
LastHistoricalDate ==
    LET d == resp.payload.historical[Len(resp.payload.historical)].date
    IN  <<d.Y, d.m, d.d>>

C2_ForecastMonths ==
    RespOk =>
        \A i \in 1..Len(resp.payload.forecast) :
            resp.payload.forecast[i].date = strftime(MonthStartAfter(LastHistoricalDate, i))

\* C3: a response to get_forecast_data(periods) has exactly `periods` forecast
\* entries and summary.forecast_periods = periods.
C3_ForecastLength ==
    RespOk =>
        /\ Len(resp.payload.forecast) = resp.periods
        /\ resp.payload.summary.forecast_periods = resp.periods

\* a one-month forecast served by the seasonal engine from a warm cache
C3_Witness ==
    /\ RespOk
    /\ resp.periods = 1
    /\ resp.warm
    /\ resp.used = "seasonal"
    /\ Len(resp.payload.forecast) = 1

\* C4: for start_year <= end_year the frame has 12 * (end_year - start_year + 1)
\* rows, row i dated the first of the i-th month counted from January of
\* start_year (so: increasing month by month, none repeated, none skipped).
C4_EveryMonthOnce ==
    (gen.called /\ gen.start_year <= gen.end_year) =>
        /\ Len(gen.data) = 12 * (gen.end_year - gen.start_year + 1)
        /\ \A i \in 1..Len(gen.data) :
              gen.data[i].ds = <<gen.start_year + ((i - 1) \div 12), ((i - 1) % 12) + 1, 1>>

\* a two-year range was generated
C4_Witness ==
    /\ gen.called
    /\ gen.end_year = gen.start_year + 1
    /\ Len(gen.data) = 24

\* C5: two generate_historical_data calls with the same arguments return the
\* same frame, whatever was drawn from the generator in between.
C5_SameArgumentsSameFrame ==
    (gen.called /\ ref.called /\ gen.start_year = ref.start_year
                /\ gen.end_year = ref.end_year) =>
        gen.data = ref.data

\* two calls with the same arguments, with a foreign draw between them
C5_Witness ==
    /\ gen.called /\ ref.called
    /\ gen.start_year = ref.start_year /\ gen.end_year = ref.end_year
    /\ ref.at < gen.at
    /\ Len(gen.data) > 0
    /\ gen.data = ref.data

\* C6: a get_forecast_data call on a warm cache, made right after a call with
\* the same periods returned, returns the same historical and forecast arrays.
C6_WarmCallsAgree ==
    [][(/\ calls' = calls + 1
        /\ quiet
        /\ resp.raised = "None"
        /\ resp'.raised = "None"
        /\ resp'.warm
        /\ resp'.periods = resp.periods)
       => (/\ resp'.payload.historical = resp.payload.historical
           /\ resp'.payload.forecast = resp.payload.forecast)]_vars

\* C7: when forecast_model.pkl exists and loading it fails, the call returns a
\* complete payload, and the file then holds a model freshly trained on the
\* series of the call.
CompletePayload ==
    /\ Len(resp.payload.historical) > 0
    /\ Len(resp.payload.forecast) = resp.periods
    /\ resp.payload.model_info.type # ""

C7_LoadFailureRetrains ==
    (resp.called /\ resp.loadFailed /\ quiet) =>
        /\ resp.raised = "None"
        /\ resp.trained
        /\ CompletePayload
        /\ modelFile = save(train(ZakatTimeSeriesModel, read_csv(histFile).df, resp.avail).self)

\* a call that found a model file it could not load
C7_Witness ==
    /\ resp.called /\ resp.loadFailed /\ quiet
    /\ resp.raised = "None"
    /\ resp.trained
    /\ ~resp.generated

\* C8: model_info names the strategy that computed the forecast.
C8_TypeNamesStrategy ==
    RespOk =>
        /\ (resp.payload.model_info.type = "Prophet") <=> (resp.used = "seasonal")
        /\ (resp.payload.model_info.seasonality = <<"none">>) <=> (resp.used = "fallback")

\* 100 * bound - pct * forecast, without forming pct * forecast
EnvelopeGap(bound, forecast, pct) ==
    100 * (bound - pct * (forecast \div 100)) - pct * (forecast % 100)

\* C9 (as stated): with the seasonal engine unavailable, every forecast entry
\* has upper_bound = 1.15 * forecast and lower_bound = 0.85 * forecast exactly.
C9_ExactEnvelope ==
    (RespOk /\ ~resp.avail) =>
        \A i \in 1..Len(resp.payload.forecast) :
            LET e == resp.payload.forecast[i]
            IN  /\ EnvelopeGap(e.upper_bound, e.forecast, 115) = 0
                /\ EnvelopeGap(e.lower_bound, e.forecast, 85) = 0

\* C9 (amended): the three numbers are each rounded to 2 decimal places, so
\* upper_bound is within 0.0107 of 1.15 * forecast and lower_bound within
\* 0.0092 of 0.85 * forecast (cents: |100 U - 115 F| <= 107, |100 L - 85 F| <= 92).
C9_EnvelopeWithinRounding ==
    (RespOk /\ ~resp.avail) =>
        \A i \in 1..Len(resp.payload.forecast) :
            LET e == resp.payload.forecast[i]
            IN  /\ resp.used = "fallback"
                /\ Abs(EnvelopeGap(e.upper_bound, e.forecast, 115)) <= 107
                /\ Abs(EnvelopeGap(e.lower_bound, e.forecast, 85)) <= 92

\* a fallback response whose upper bound is not 1.15 times its forecast
C9_Witness ==
    /\ RespOk /\ ~resp.avail
    /\ Len(resp.payload.forecast) >= 1
    /\ EnvelopeGap(resp.payload.forecast[1].upper_bound,
                   resp.payload.forecast[1].forecast, 115) # 0

\* C10: with the seasonal engine, train on fewer than 24 points raises and
\* leaves the model untrained.
C10_SeasonalNeeds24 ==
    (out.op = "train" /\ PROPHET_AVAILABLE /\ Len(out.df) < 24) =>
        /\ out.raised # "None"
        /\ ~inst.is_fitted

\* C11: predict on an instance on which no train call has completed raises the
\* not-trained error, returns no rows and leaves the instance unfitted; predict
\* returns rows only on an instance on which a train call has completed.
C11_PredictNeedsTrain ==
    (out.op = "predict") =>
        /\ ~out.completed =>
              (out.raised = "ValueError" /\ out.rows = <<>> /\ ~inst.is_fitted)
        /\ out.raised = "None" => (out.completed /\ Len(out.rows) >= out.periods)

\* predict was called after a train call that raised (so none completed)
C11_Witness ==
    /\ out.op = "predict"
    /\ ~out.completed
    /\ out.raised = "ValueError"
    /\ inst.model.kind = "Prophet"

\* the sums the claim speaks of, taken from the response's historical array
AmountSum(lo, hi) ==
    LET h == resp.payload.historical
        Amounts == [i \in 1..Len(h) |-> [y |-> h[i].amount]]
    IN  SumY(Amounts, lo, hi)

NHist == Len(resp.payload.historical)

Last12Sum == AmountSum(NHist - 11, NHist)

Prior12Sum == AmountSum(NHist - 23, NHist - 12)

\* (last - prior) / prior * 100, in tenths of a percent
YoyExact == FracTimes(FracOfDiv(Last12Sum - Prior12Sum, Prior12Sum), 1000)

YoyReported == resp.payload.summary.yoy_growth_percent

\* C12 (as stated): yoy_growth_percent is (last 12 - prior 12) / prior 12 * 100
\* for a series of 24 points or more whose prior sum is not zero, else 0.
C12_YoyExact ==
    RespOk =>
        IF NHist >= 24 /\ Prior12Sum # 0
        THEN FracEq(FracOfInt(YoyReported), YoyExact)
        ELSE YoyReported = 0

\* C12 (amended): yoy_growth_percent is that quotient rounded to 1 decimal
\* place (within 0.05 of it, and a whole number of tenths), else 0.
C12_YoyRounded ==
    RespOk =>
        IF NHist >= 24 /\ Prior12Sum # 0
        THEN LET half == [q |-> 0, r |-> Prior12Sum, d |-> 2 * Prior12Sum]
                 exact == FracRescale(YoyExact, 2)
                 reported == [q |-> YoyReported, r |-> 0, d |-> 2 * Prior12Sum]
             IN  /\ FracLeq(FracSub(exact, half), reported)
                 /\ FracLeq(reported, FracAdd(exact, half))
        ELSE YoyReported = 0

\* a 25-month series whose growth is not a whole number of tenths of a percent
C12_Witness ==
    /\ RespOk
    /\ NHist = 25
    /\ Prior12Sum # 0
    /\ YoyExact.r # 0
    /\ YoyReported # 0

\* a series whose prior year sums to zero while its last year does not
C12_WitnessZero ==
    /\ RespOk
    /\ NHist >= 24
    /\ Prior12Sum = 0
    /\ Last12Sum > 0

\* the (date, amount) points of the series historical_collections.csv holds
PersistedSeries ==
    LET df == read_csv(histFile).df
    IN  [i \in 1..Len(df) |-> [date |-> strftime(df[i].ds), amount |-> df[i].y]]

\* C13: right after a get_forecast_data call returned a payload, both cache
\* files exist, the series file holds the `historical` array of the payload,
\* and the series was synthesized only if its file was absent before the call.
C13_CacheAfterCall ==
    (RespOk /\ quiet) =>
        /\ histFile.kind = "csv"
        /\ modelFile.kind = "pickle"
        /\ read_csv(histFile).raised = "None"
        /\ PersistedSeries = resp.payload.historical
        /\ resp.generated <=> (resp.histBefore = "absent")

\* a call that found the model file but no series file
C13_Witness ==
    /\ RespOk /\ quiet
    /\ resp.histBefore = "absent"
    /\ resp.modelBefore = "pickle"
    /\ resp.generated
    /\ Len(resp.payload.historical) = 60

\* C14: a get_forecast_data call that finds historical_collections.csv
\* unreadable regenerates the series, persists it and returns a complete payload.
C14_SeriesFileRecovered ==
    (resp.called /\ resp.histBefore = "garbage") =>
        /\ resp.raised = "None"
        /\ resp.generated
        /\ CompletePayload
        /\ quiet => read_csv(histFile).raised = "None"

\* C15: model_info.type of a response is "seasonal" or "linear-fallback", and
\* model_info.seasonality is empty when the fallback computed the forecast.
C15_ModelInfoShape ==
    RespOk =>
        /\ resp.payload.model_info.type \in {"seasonal", "linear-fallback"}
        /\ resp.used = "fallback" => resp.payload.model_info.seasonality = <<>>

\* C16: of the workers inside get_forecast_data on a cold cache, at most one
\* synthesizes and writes the series file and at most one trains and writes
\* the model file.
C16_LoadOrCreateIsCritical ==
    /\ Cardinality({w \in Workers : workers[w].generated}) <= 1
    /\ Cardinality({w \in Workers : workers[w].trained}) <= 1

\* C17: in a process without the seasonal engine, get_forecast_data raises
\* nothing, the model it trains or loads is a fitted linear fallback, and the
\* payload is complete and names the fallback.
C17_SilentFallback ==
    (resp.called /\ ~resp.avail) =>
        /\ resp.raised = "None"
        /\ CompletePayload
        /\ resp.used = "fallback"
        /\ resp.payload.model_info.type = "Linear Regression (Fallback)"
        /\ quiet => /\ modelFile.kind = "pickle"
                    /\ modelFile.obj.is_fitted
                    /\ modelFile.obj.model = None
                    /\ modelFile.obj.fallback_model.fitted

\* the call trained the fallback itself, the cached seasonal model being
\* unloadable without the engine
C17_Witness ==
    /\ RespOk /\ ~resp.avail
    /\ resp.trained
    /\ resp.loadFailed
    /\ resp.used = "fallback"
    /\ quiet /\ modelFile.obj.fallback_model.fitted

\* C18: generate_historical_data(start_year, end_year) with
\* start_year > end_year returns a frame of no rows (the call returns: the
\* loop body, the only code that could raise, never runs).
C18_ReversedRangeIsEmpty ==
    (gen.called /\ gen.start_year > gen.end_year) => gen.data = <<>>

\* a call with the years reversed
C18_Witness ==
    /\ gen.called
    /\ gen.start_year = gen.end_year + 2
    /\ Len(gen.data) = 0

\* x is the fraction a rounded to the nearest whole number (|x - a| <= 1/2)
NearestTo(x, a) ==
    \/ x = a.q /\ 2 * a.r <= a.d
    \/ x = a.q + 1 /\ 2 * a.r >= a.d

\* the rows of forecast_df the payload shows
ShownRows == DfTail(resp.forecast_df, resp.periods)

\* amounts, forecasts, bounds and the three totals of the payload are the
\* computed values rounded to 2 decimal places (whole cents)
MoneyRounded ==
    /\ \A i \in 1..Len(resp.payload.forecast) :
          /\ NearestTo(resp.payload.forecast[i].forecast, ShownRows[i].forecast)
          /\ NearestTo(resp.payload.forecast[i].lower_bound, ShownRows[i].lower_bound)
          /\ NearestTo(resp.payload.forecast[i].upper_bound, ShownRows[i].upper_bound)
    /\ resp.payload.summary.total_historical = AmountSum(1, NHist)
    /\ NearestTo(resp.payload.summary.average_monthly, FracOfDiv(AmountSum(1, NHist), NHist))
    /\ NearestTo(resp.payload.summary.total_forecast_12m,
                 SumForecast(ShownRows, 1, Len(ShownRows)))
    /\ quiet => \A i \in 1..NHist :
                   resp.payload.historical[i].amount = read_csv(histFile).df[i].y

\* the growth quotient in 1/100 of a percent
YoyExactHundredths == FracTimes(FracOfDiv(Last12Sum - Prior12Sum, Prior12Sum), 10000)

\* C19 (as stated): every number of the payload, yoy_growth_percent included,
\* is the computed value rounded to 2 decimal places.
C19_AllTwoDecimals ==
    RespOk =>
        /\ MoneyRounded
        /\ (NHist >= 24 /\ Prior12Sum # 0) =>
              NearestTo(10 * YoyReported, YoyExactHundredths)

\* C19 (amended): every number of the payload is the computed value rounded
\* to 2 decimal places, except yoy_growth_percent, rounded to 1 decimal place.
C19_RoundedAtBoundary ==
    RespOk =>
        /\ MoneyRounded
        /\ (NHist >= 24 /\ Prior12Sum # 0) => NearestTo(YoyReported, YoyExact)

\* a fallback forecast whose estimate is not a whole number of cents, on a
\* series whose growth is not a whole number of tenths of a percent
C19_Witness ==
    /\ RespOk
    /\ resp.used = "fallback"
    /\ Len(ShownRows) = 2
    /\ ShownRows[1].forecast.r # 0
    /\ NHist >= 24 /\ Prior12Sum # 0
    /\ YoyExact.r # 0

\* C20: the series read back from historical_collections.csv is the series
\* that was generated and saved, and a model trained on the series read back
\* forecasts what the model trained on the freshly generated series forecast:
\* a call that loads the series and trains returns the historical and forecast
\* arrays of the earlier call that generated the series and trained.
C20_LoadedSeriesSameForecasts ==
    [][(/\ calls' = calls + 1
        /\ resp.called /\ resp.raised = "None"
        /\ resp.generated /\ resp.trained
        /\ resp'.raised = "None"
        /\ ~resp'.generated /\ resp'.trained
        /\ resp'.avail = resp.avail
        /\ resp'.periods = resp.periods)
       => (/\ resp'.payload.historical = resp.payload.historical
           /\ resp'.payload.forecast = resp.payload.forecast)]_vars

\* C21 (as stated): without the seasonal engine, train on a series of n
\* points, 0 <= n < 24, returns normally and leaves the model fitted.
C21_FallbackAnyLength ==
    (out.op = "train" /\ ~PROPHET_AVAILABLE /\ Len(out.df) < 24) =>
        /\ out.raised = "None"
        /\ inst.is_fitted

\* C21 (amended): the same for 1 <= n < 24; on the empty series the
\* regression's fit raises and this train call fits nothing.
C21_FallbackAnyNonEmptyLength ==
    (out.op = "train" /\ ~PROPHET_AVAILABLE /\ Len(out.df) < 24) =>
        IF Len(out.df) >= 1
        THEN /\ out.raised = "None"
             /\ inst.is_fitted
             /\ inst.fallback_model.fitted
             /\ inst.last_month_num = Len(out.df) - 1
        ELSE /\ out.raised = "ValueError"
             /\ ~inst.fallback_model.fitted

\* the fallback trained on a single point
C21_Witness ==
    /\ out.op = "train" /\ ~PROPHET_AVAILABLE
    /\ Len(out.df) = 1
    /\ out.raised = "None"
    /\ inst.is_fitted

\* what predict returns on a new instance trained on the frame of the last
\* train call only, from the generator state the observed predict started in
FreshPredict ==
    predict(train(ZakatTimeSeriesModel, out.df, PROPHET_AVAILABLE).self,
            out.periods, PROPHET_AVAILABLE, out.entry)

\* C22: after train(A) and then train(B) on one instance, predict(periods)
\* returns the rows a new instance trained on B alone returns (and returns
\* rows exactly when that one does).
C22_RetrainOverwrites ==
    (out.op = "predict" /\ out.trains >= 1) =>
        /\ out.rows = FreshPredict.rows
        /\ (out.raised = "None") <=> (FreshPredict.raised = "None")

\* predict after two train calls on different non-empty series
C22_Witness ==
    /\ out.op = "predict"
    /\ out.trains = 2
    /\ out.refit
    /\ out.raised = "None"
    /\ out.rows # <<>>

\* C23: a get_forecast_data call that finds both cache files, with a model
\* file that loads, trains nothing and generates nothing, and leaves
\* historical_collections.csv and forecast_model.pkl as they were.
C23_WarmCallWritesNothing ==
    [][(/\ calls' = calls + 1
        /\ histFile.kind # "absent"
        /\ modelFile.kind # "absent"
        /\ load(modelFile, PROPHET_AVAILABLE).raised = "None")
       => (/\ histFile' = histFile
           /\ modelFile' = modelFile
           /\ ~resp'.trained
           /\ ~resp'.generated)]_vars

\* a call that found both files, loaded the model and returned a payload
C23_Witness ==
    /\ RespOk /\ quiet
    /\ resp.histBefore # "absent"
    /\ resp.modelBefore # "absent"
    /\ ~resp.loadFailed
    /\ ~resp.trained
    /\ Len(resp.payload.forecast) > 0

\* the peak month of a year as the table of the specification gives it
PeakMonth(year) ==
    IF year \in {2020, 2021, 2022} THEN 4
    ELSE IF year \in {2023, 2024} THEN 3
    ELSE IF year = 2025 THEN 2
    ELSE 4

\* the one multiplier of a month, in tenths: 2.5, 1.3 or 1
Multiplier(year, month) ==
    IF month = PeakMonth(year) \/ month = PeakMonth(year) + 1 THEN 25
    ELSE IF month = 11 \/ month = 12 THEN 13
    ELSE 10

\* the state of the generator after n draws from state g (by halves)
RECURSIVE RngAfter(_, _)
RngAfter(g, n) ==
    IF n = 0 THEN g
    ELSE IF n = 1 THEN NextRng(g)
    ELSE CHOOSE r \in {RngAfter(h, n - (n \div 2)) : h \in {RngAfter(g, n \div 2)}} : TRUE

\* the amount of row i of the last generated frame, with multiplier mult
\* (tenths), before the noise and after it, in tenths of a cent
Trend(i) ==
    (base_monthly * (100 + GROWTH_PCT * (gen.data[i].ds[1] - gen.start_year))) \div 100000

Noisy(i, mult) == Trend(i) * mult * (100000 + Uniform(RngAfter(Seed(42), i)))

\* C24: every generated month carries exactly one multiplier: 2.5 in the peak
\* month of its year and the month after, else 1.3 in November and December,
\* else 1; never both, and April is the peak month of a year not in the table.
C24_OneMultiplier ==
    gen.called =>
        \A i \in 1..Len(gen.data) :
            LET year == gen.data[i].ds[1]
                month == gen.data[i].ds[2]
            IN  gen.data[i].y = RoundHalfEven(Noisy(i, Multiplier(year, month)), 10)

\* a frame covering 2025 (peak in February) and 2026 (not in the table)
C24_Witness ==
    /\ gen.called
    /\ \E i, j \in 1..Len(gen.data) :
          /\ gen.data[i].ds = <<2025, 3, 1>>
          /\ gen.data[j].ds = <<2026, 5, 1>>
          /\ gen.data[j].y = RoundHalfEven(Noisy(j, 25), 10)

\* pct percent of B of row i, in cents
PctOfB(i, pct) ==
    Trend(i) * SeasonalBoost(gen.data[i].ds[1], gen.data[i].ds[2]) * 100 * pct

\* C25: every generated value is non-negative and within 15% of
\* B = 150000 * (1 + 0.12 * (year - start_year)) * multiplier.
C25_WithinVariation ==
    gen.called =>
        \A i \in 1..Len(gen.data) :
            /\ gen.data[i].y >= 0
            /\ PctOfB(i, 85) <= gen.data[i].y
            /\ gen.data[i].y <= PctOfB(i, 115)

\* a frame with a value more than 10% under B and one more than 10% over it
C25_Witness ==
    /\ gen.called
    /\ \E i, j \in 1..Len(gen.data) :
          /\ gen.data[i].y < PctOfB(i, 90)
          /\ gen.data[j].y > PctOfB(j, 110)

\* the model object predict will use holds fitted parameters
UsableModel ==
    IF PredictBranch(inst, PROPHET_AVAILABLE) = "seasonal"
    THEN inst.model.fitted
    ELSE inst.fallback_model.kind # "None" /\ inst.fallback_model.fitted

\* C26: is_fitted is true only if the model predict will use holds parameters
\* fitted by a completed train call, and a train call that raises leaves the
\* instance (model objects and is_fitted) as it was.
C26_FittedStateSound ==
    /\ [](inst.is_fitted => UsableModel)
    /\ [][(out' # out /\ out'.op = "train" /\ out'.raised # "None") => inst' = inst]_vars

\* the series and the model a call on a cold cache works with when nothing
\* interferes
FullSeries ==
    generate_historical_data(DEFAULT_START_YEAR, DEFAULT_END_YEAR, 0).data

FullModel == train(ZakatTimeSeriesModel, FullSeries, PROPHET_AVAILABLE).self

TableOf(fn) == IF fn = "bucket_income" THEN INCOME_BUCKETS ELSE WEALTH_BUCKETS

Rank(fn, label) ==
    IF \E i \in 1..5 : TableOf(fn)[i][3] = label
    THEN CHOOSE i \in 1..5 : TableOf(fn)[i][3] = label
    ELSE 0

\* C30: bucket_income and bucket_wealth give every number the label of the
\* bucket whose [min, max) range holds it, and never give a smaller number a
\* higher bucket than a larger one.
C30_TotalAndMonotone ==
    /\ anon.last.fn # "none" =>
          LET i == Rank(anon.last.fn, anon.last.label)
          IN  /\ i # 0
              /\ TableOf(anon.last.fn)[i][1] <= anon.last.value
              /\ anon.last.value < TableOf(anon.last.fn)[i][2]
    /\ (anon.last.fn # "none" /\ anon.before.fn = anon.last.fn
          /\ anon.before.value <= anon.last.value)
          => Rank(anon.last.fn, anon.before.label) <= Rank(anon.last.fn, anon.last.label)

\* C28: the handler behind admin_required runs only for a session with a
\* user_id and role 'admin' (401 without user_id, 403 for another role), the
\* handler behind login_required only for a session with a user_id, and after
\* a logout every guarded endpoint answers 401 until a login has succeeded.
C28_GuardsHold ==
    LET r == site.reply
        has_user == "user_id" \in r.session.keys
        is_admin == "role" \in r.session.keys /\ r.session.role = "admin"
    IN  /\ r.endpoint = "admin_required" =>
              /\ r.ran <=> (has_user /\ is_admin)
              /\ ~has_user => r.status = 401
              /\ (has_user /\ ~is_admin) => r.status = 403
        /\ r.endpoint = "login_required" =>
              /\ r.ran <=> has_user
              /\ ~has_user => r.status = 401
        /\ (r.endpoint \in {"admin_required", "login_required"}
              /\ r.phase \in {"out", "out_new"})
              => (r.status = 401 /\ ~r.ran)

\* a client that had logged in and logged out asks for a guarded endpoint
\* while the other client is logged in as admin
C28_Witness ==
    /\ site.reply.endpoint = "admin_required"
    /\ site.reply.phase = "out"
    /\ site.reply.status = 401
    /\ \E c \in Clients : c # site.reply.client /\ site.sessions[c].role = "admin"

\* the rows of the users table that register created
Registered == SubSeq(site.users, Len(SeededUsers) + 1, Len(site.users))

\* C29: a register request for an email that is registered when it arrives is
\* answered 400 and adds nothing; the users table never holds two rows with
\* one email; every user register created has role 'user' and one profile.
C29_RegisterKeepsEmailsUnique ==
    /\ (site.reply.endpoint = "register" /\ site.reply.registered)
          => (site.reply.status = 400 /\ ~site.reply.ran)
    /\ \A i, j \in 1..Len(site.users) :
          site.users[i].email = site.users[j].email => i = j
    /\ \A i \in 1..Len(Registered) :
          /\ Registered[i].role = "user"
          /\ Len(SelectSeq(site.user_profiles,
                           LAMBDA row : row.user_id = Registered[i].id)) = 1

\* an email registered by one request is refused to a later request that
\* sends it with other case and blanks
C29_Witness ==
    /\ site.reply.endpoint = "register"
    /\ site.reply.registered
    /\ site.reply.status = 400
    /\ Len(Registered) = 1
    /\ site.reply.email = Registered[1].email
    /\ site.reply.raw # Registered[1].email

====
